---------------------------- MODULE Spec2Model ----------------------------
(***************************************************************************)
(* The realization service's POST /api/realization/process handler         *)
(* (blueprint/infra/backend/services/realization/main.py): telemetry is    *)
(* grouped by kpiId, averaged, compared with the committed targets, and a  *)
(* report plus a renewal alert is returned.  One request is followed       *)
(* statement by statement; the same request is then sent again, so that    *)
(* two calls on identical arguments can be compared.                       *)
(*                                                                         *)
(* Python values of type Any are tagged records: a number is an exact      *)
(* fraction num/den in lowest terms (on the small integers of this model   *)
(* binary64 division agrees with it on sign, equality and n*mean = sum),   *)
(* a string is [type |-> "str"], None is [type |-> "NoneType"].            *)
(* A dict is a function whose DOMAIN is the set of keys it holds.          *)
(***************************************************************************)
EXTENDS Integers, Sequences, FiniteSets, TLC

-----------------------------------------------------------------------------
(* Bounds of the model *)

MaxSamples == 3      \* longest well-typed telemetryData list
MaxTargets == 2      \* longest well-typed kpiTargets list
MaxValue == 1        \* telemetry values range over -MaxValue..MaxValue
MaxTarget == 1       \* target values range over 0..MaxTarget
MaxRawLen == 1       \* longest list of a payload that may hold malformed entries
MaxCalls == 2        \* the request is processed this many times

KpiIds == {"time-saved", "revenue"}
Units == {"percent"}
Timestamps == {"2025-11-01T00:00:00Z"}

-----------------------------------------------------------------------------
(* Python values *)

None == [type |-> "NoneType"]

Str(s) == [type |-> "str", str |-> s]

Abs(n) == IF n < 0 THEN -n ELSE n

RECURSIVE GCD(_, _)
GCD(a, b) == IF b = 0 THEN a ELSE GCD(b, a % b)

\* the number n/d (d > 0) in lowest terms
Num(n, d) ==
    LET g == GCD(Abs(n), d)
    IN  [type |-> "number", num |-> n \div g, den |-> d \div g]

Float(n) == Num(n, 1)

IsNumber(v) == v.type = "number"

Add(x, y) == Num(x.num * y.den + y.num * x.den, x.den * y.den)

Sub(x, y) == Num(x.num * y.den - y.num * x.den, x.den * y.den)

DivInt(x, n) == Num(x.num, x.den * n)

IsNegative(x) == x.num < 0

\* sum(values): left fold starting from 0
RECURSIVE PySum(_)
PySum(values) ==
    IF values = <<>> THEN Float(0)
    ELSE Add(PySum(SubSeq(values, 1, Len(values) - 1)), values[Len(values)])

\* d.get(k): the value under k, None when the key is missing
DictGet(d, k) == IF k \in DOMAIN d THEN d[k] ELSE None

EmptyDict == << >>

-----------------------------------------------------------------------------
(* Request payloads *)

\* all sequences over S of length at most n
SeqUpTo(S, n) == UNION {[1..k -> S] : k \in 0..n}

\* entries of kpiTargets that carry kpiId, targetValue and unit
WellTypedTargets ==
    {[kpiId |-> k, targetValue |-> Float(v), unit |-> Str(u)] :
        k \in KpiIds, v \in 0..MaxTarget, u \in Units}

\* entries of kpiTargets with a missing or ill-typed field; valueCommit is a
\* Dict[str, Any], so the request model accepts them
MalformedTargets ==
    {[targetValue |-> Float(1), unit |-> Str("percent")],
     [kpiId |-> "revenue", unit |-> Str("percent")],
     [kpiId |-> "revenue", targetValue |-> Float(1)],
     [kpiId |-> "revenue", targetValue |-> Str("high"), unit |-> Str("percent")]}

\* telemetry entries the Telemetry model accepts
WellTypedSamples ==
    {[kpiId |-> k, timestamp |-> t, value |-> Float(v)] :
        k \in KpiIds, t \in Timestamps, v \in (-MaxValue)..MaxValue}

\* telemetry entries the Telemetry model rejects
MalformedSamples ==
    {[kpiId |-> "revenue", timestamp |-> "2025-11-01T00:00:00Z"],
     [kpiId |-> "revenue", timestamp |-> "2025-11-01T00:00:00Z", value |-> Str("high")]}

Commits(T, n) ==
    {[id |-> Str("vc-1"), kpiTargets |-> ts] : ts \in SeqUpTo(T, n)}
        \cup {[id |-> Str("vc-1")]}

WellTypedPayloads ==
    {[valueCommit |-> c, telemetryData |-> s] :
        c \in Commits(WellTypedTargets, MaxTargets),
        s \in SeqUpTo(WellTypedSamples, MaxSamples)}

RawPayloads ==
    {[valueCommit |-> c, telemetryData |-> s] :
        c \in Commits(WellTypedTargets \cup MalformedTargets, MaxRawLen),
        s \in SeqUpTo(WellTypedSamples \cup MalformedSamples, MaxRawLen)}

Payloads == WellTypedPayloads \cup RawPayloads

-----------------------------------------------------------------------------
(* State *)

VARIABLES
    payload,        \* the request body
    pc,             \* position of the handler
    outcome,        \* "none", "ok" (200), "validation_error" (422), "error" (500)
    response,       \* the RealizationReport returned, None before
    targets,        \* local: dict kpiId -> target
    aggregates,     \* local: insertion-ordered dict kpiId -> list of values
    i,              \* index of the telemetry entry the first loop is at
    j,              \* index of the aggregates item the second loop is at
    results,        \* local: list of result dicts
    renewal_flag,   \* local
    aggSteps,       \* handler statements executed in the current call
    callNo,         \* number of the current call
    prevOutcome,    \* outcome of the previous call
    prevResponse,   \* response of the previous call
    now,            \* wall-clock time at which the current call is made
    prevNow         \* wall-clock time at which the previous call was made

vars == <<payload, pc, outcome, response, targets, aggregates, i, j, results,
          renewal_flag, aggSteps, callNo, prevOutcome, prevResponse, now,
          prevNow>>

locals == <<targets, aggregates, i, j, results, renewal_flag>>

history == <<callNo, prevOutcome, prevResponse, now, prevNow>>

\* calls of the handler that run concurrently
VARIABLES
    requests,       \* call -> the request body it was sent
    frames,         \* call -> the local variables and position of that call
    overlapped      \* some call took a step while another was under way

cvars == <<requests, frames, overlapped>>

\* no concurrent calls are being followed
NoConcurrentCalls ==
    /\ requests = <<>>
    /\ frames = <<>>
    /\ overlapped = FALSE

\* the task orchestrator of scripts/production-readiness-orchestrator.py
VARIABLES
    tasks,          \* self.tasks: task id -> Task
    daily_reports,  \* self.daily_reports
    escalations,    \* the lines appended to escalations.json
    opc,            \* position of the orchestrator's coroutine
    etask,          \* task_id of the execute_task call under way or last made
    eresult,        \* value returned by the last execute_task call
    caller,         \* who made that call: "direct" or "autonomous"
    callRuns,       \* runs of the task logic within that call
    ranLogic,       \* the last entry into execute_task ran the task logic
    directCalls,    \* execute_task calls made from outside so far
    execsSinceCheck \* execute_task calls of the loop since its last progress check

ovars == <<tasks, daily_reports, escalations, opc, etask, eresult, caller,
           callRuns, ranLogic, directCalls, execsSinceCheck>>

\* no orchestrator has been constructed
NoOrchestrator ==
    /\ tasks = <<>>
    /\ daily_reports = <<>>
    /\ escalations = <<>>
    /\ opc = "none"
    /\ etask = ""
    /\ eresult = "none"
    /\ caller = "none"
    /\ callRuns = 0
    /\ ranLogic = FALSE
    /\ directCalls = 0
    /\ execsSinceCheck = 0

\* no request is being followed statement by statement
NoSingleCall ==
    /\ payload = <<>>
    /\ pc = "none"
    /\ outcome = "none"
    /\ response = None
    /\ targets = EmptyDict
    /\ aggregates = <<>>
    /\ i = 1
    /\ j = 1
    /\ results = <<>>
    /\ renewal_flag = FALSE
    /\ aggSteps = 0
    /\ callNo = 1
    /\ prevOutcome = "none"
    /\ prevResponse = None
    /\ now = 1
    /\ prevNow = 0

Init ==
    /\ NoConcurrentCalls
    /\ NoOrchestrator
    /\ payload \in Payloads
    /\ pc = "request"
    /\ outcome = "none"
    /\ response = None
    /\ targets = EmptyDict
    /\ aggregates = <<>>
    /\ i = 1
    /\ j = 1
    /\ results = <<>>
    /\ renewal_flag = FALSE
    /\ aggSteps = 0
    /\ callNo = 1
    /\ prevOutcome = "none"
    /\ prevResponse = None
    /\ now = 1
    /\ prevNow = 0

-----------------------------------------------------------------------------
(* Request validation: the pydantic models *)

\* Telemetry: kpiId: str, timestamp: str, value: float, all required
TelemetryValid(s) ==
    /\ {"kpiId", "timestamp", "value"} \subseteq DOMAIN s
    /\ IsNumber(s.value)

\* RealizationRequest: valueCommit is any dict, telemetryData a list of Telemetry
RequestValid(p) ==
    \A n \in DOMAIN p.telemetryData : TelemetryValid(p.telemetryData[n])

\* FastAPI parses the body into RealizationRequest before the handler runs;
\* a body that does not validate is answered 422 and the handler is not called
ParseRequest ==
    /\ pc = "request"
    /\ IF RequestValid(payload)
         THEN /\ pc' = "targets"
              /\ outcome' = outcome
         ELSE /\ pc' = "done"
              /\ outcome' = "validation_error"
    /\ UNCHANGED <<payload, response, locals, aggSteps, history>>
    /\ UNCHANGED <<cvars, ovars>>

-----------------------------------------------------------------------------
(* The handler body *)

\* data.valueCommit.get('kpiTargets', [])
KpiTargets(valueCommit) ==
    IF "kpiTargets" \in DOMAIN valueCommit THEN valueCommit.kpiTargets ELSE <<>>

\* the first entry with a key is kept
KeptEntry_first(positions) == CHOOSE n \in positions : \A m \in positions : n <= m

\* which of several entries with the same key a dict comprehension keeps
KeptEntry(positions) == CHOOSE n \in positions : \A m \in positions : m <= n

\* {t['kpiId']: t for t in kpiTargets}, for entries that all hold kpiId
TargetsDict(kpiTargets) ==
    LET keys == {kpiTargets[n].kpiId : n \in DOMAIN kpiTargets}
        At(k) == {n \in DOMAIN kpiTargets : kpiTargets[n].kpiId = k}
    IN  [k \in keys |-> kpiTargets[KeptEntry(At(k))]]

\* aggregates = {k: [] for k in targets}
NewAggregates_emptyGroups(tgts) ==
    LET RECURSIVE Seeded(_)
        Seeded(keys) ==
            IF keys = {} THEN <<>>
            ELSE LET k == CHOOSE x \in keys : TRUE
                 IN  <<[key |-> k, values |-> <<>>]>> \o Seeded(keys \ {k})
    IN  Seeded(DOMAIN tgts)

\* aggregates = {k: [0] for k in targets}
NewAggregates_perTarget(tgts) ==
    LET RECURSIVE Seeded(_)
        Seeded(keys) ==
            IF keys = {} THEN <<>>
            ELSE LET k == CHOOSE x \in keys : TRUE
                 IN  <<[key |-> k, values |-> <<Float(0)>>]>> \o Seeded(keys \ {k})
    IN  Seeded(DOMAIN tgts)

\* aggregates = {}
NewAggregates(tgts) == <<>>

\* except Exception as e: raise HTTPException(status_code=500, ...)
Raise500 ==
    /\ pc' = "done"
    /\ outcome' = "error"
    /\ response' = None

\* targets = {...}; aggregates = {}
BuildTargets ==
    /\ pc = "targets"
    /\ aggSteps' = aggSteps + 1
    /\ LET kpiTargets == KpiTargets(payload.valueCommit)
       IN  IF \E n \in DOMAIN kpiTargets : "kpiId" \notin DOMAIN kpiTargets[n]
           THEN \* KeyError: 'kpiId'
                /\ Raise500
                /\ UNCHANGED locals
           ELSE /\ targets' = TargetsDict(kpiTargets)
                /\ aggregates' = NewAggregates(targets')
                /\ i' = 1
                /\ pc' = "group"
                /\ UNCHANGED <<outcome, response, j, results, renewal_flag>>
    /\ UNCHANGED <<payload, history>>
    /\ UNCHANGED <<cvars, ovars>>

\* the position of key k in the ordered dict, 0 when it is not a key
KeyIndex(agg, k) ==
    IF \E n \in DOMAIN agg : agg[n].key = k
    THEN CHOOSE n \in DOMAIN agg : agg[n].key = k
    ELSE 0

\* aggregates[kpiId] = [value]: every sample opens a group of its own
SetDefaultAppend_noGrouping(agg, k, v) == Append(agg, [key |-> k, values |-> <<v>>])

\* aggregates.setdefault(kpiId, []).append(value)
SetDefaultAppend(agg, k, v) ==
    LET n == KeyIndex(agg, k)
    IN  IF n = 0
        THEN Append(agg, [key |-> k, values |-> <<v>>])
        ELSE [agg EXCEPT ![n].values = Append(@, v)]

\* one iteration of: for t in data.telemetryData
GroupSample ==
    /\ pc = "group"
    /\ i <= Len(payload.telemetryData)
    /\ LET t == payload.telemetryData[i]
       IN  aggregates' = SetDefaultAppend(aggregates, t.kpiId, t.value)
    /\ i' = i + 1
    /\ aggSteps' = aggSteps + 1
    /\ UNCHANGED <<payload, pc, outcome, response, targets, j, results,
                   renewal_flag, history>>
    /\ UNCHANGED <<cvars, ovars>>

\* results is not emptied: the list outlives the call
NewResults_kept(old) == old

\* results = []
NewResults(old) == <<>>

\* results = []; renewal_flag = False
StartResults ==
    /\ pc = "group"
    /\ i > Len(payload.telemetryData)
    /\ results' = NewResults(results)
    /\ renewal_flag' = FALSE
    /\ j' = 1
    /\ pc' = "aggregate"
    /\ aggSteps' = aggSteps + 1
    /\ UNCHANGED <<payload, outcome, response, targets, aggregates, i, history>>
    /\ UNCHANGED <<cvars, ovars>>

\* max(0, sum(values) / len(values))
Mean_clamped(values) ==
    LET m == DivInt(PySum(values), Len(values))
    IN  IF IsNegative(m) THEN Float(0) ELSE m

\* sum(values) / len(values), for a non-empty list
Mean(values) == DivInt(PySum(values), Len(values))

\* variance = actual - target
Variance(actual, target) == Sub(actual, target)

\* if variance <= 0
BelowTarget_orEqual(variance) == variance.num <= 0

\* if variance < 0
BelowTarget(variance) == IsNegative(variance)

\* targets.get(kpi_id, {}).get(field, 0)
TargetField_zeroDefault(tgts, kpi_id, field) ==
    IF kpi_id \in DOMAIN tgts /\ field \in DOMAIN tgts[kpi_id]
    THEN tgts[kpi_id][field]
    ELSE Float(0)

\* targets.get(kpi_id, {}).get(field)
TargetField(tgts, kpi_id, field) ==
    DictGet(IF kpi_id \in DOMAIN tgts THEN tgts[kpi_id] ELSE EmptyDict, field)

\* target is truthy
TargetPresent_truthy(target) == target # None /\ target # Float(0)

\* if target is not None
TargetPresent(target) == target # None

\* the body of: for kpi_id, values in aggregates.items(), on one item, from
\* the results and the flag so far; raised when the body throws
AggregateItem(tgts, item, res, flag) ==
    LET kpi_id == item.key
        values == item.values
        target == TargetField(tgts, kpi_id, "targetValue")
        unit   == TargetField(tgts, kpi_id, "unit")
    IN  IF Len(values) = 0
        THEN \* ZeroDivisionError
             [raised |-> TRUE, results |-> res, renewal_flag |-> flag]
        ELSE IF TargetPresent(target) /\ ~IsNumber(target)
        THEN \* TypeError: unsupported operand type(s) for -
             [raised |-> TRUE, results |-> res, renewal_flag |-> flag]
        ELSE LET actual == Mean(values)
                 variance == IF TargetPresent(target)
                             THEN Variance(actual, target) ELSE None
             IN  [raised |-> FALSE,
                  results |-> Append(res,
                                 [kpiId |-> kpi_id,
                                  actualValue |-> actual,
                                  targetValue |-> target,
                                  unit |-> unit,
                                  variance |-> variance]),
                  renewal_flag |->
                      IF TargetPresent(target) /\ BelowTarget(variance)
                      THEN TRUE ELSE flag]

\* one iteration of: for kpi_id, values in aggregates.items()
AggregateKpi ==
    /\ pc = "aggregate"
    /\ j <= Len(aggregates)
    /\ aggSteps' = aggSteps + 1
    /\ LET step == AggregateItem(targets, aggregates[j], results, renewal_flag)
       IN  IF step.raised
           THEN /\ Raise500
                /\ UNCHANGED <<j, results, renewal_flag>>
           ELSE /\ renewal_flag' = step.renewal_flag
                /\ results' = step.results
                /\ j' = j + 1
                /\ UNCHANGED <<pc, outcome, response>>
    /\ UNCHANGED <<payload, targets, aggregates, i, history>>
    /\ UNCHANGED <<cvars, ovars>>

RiskMessage == "Value delivery below target for one or more KPIs"

\* the message is left out of the risk alert
Alert_noMessage(flag) == [status |-> IF flag THEN "risk" ELSE "ok"]

\* alert = {'status': 'ok'}; if renewal_flag: alert = {'status': 'risk', ...}
Alert(flag) ==
    IF flag THEN [status |-> "risk", message |-> RiskMessage]
    ELSE [status |-> "ok"]

\* the report dict
Report(valueCommit, res) ==
    [id |-> "auto-generated",
     valueCommitId |-> DictGet(valueCommit, "id"),
     generatedAt |-> "2025-11-17T00:00:00Z",
     results |-> res]

\* return RealizationReport(realizationReport=report, renewalAlert=alert)
Return ==
    /\ pc = "aggregate"
    /\ j > Len(aggregates)
    /\ response' = [realizationReport |-> Report(payload.valueCommit, results),
                    renewalAlert |-> Alert(renewal_flag)]
    /\ outcome' = "ok"
    /\ pc' = "done"
    /\ aggSteps' = aggSteps + 1
    /\ UNCHANGED <<payload, locals, history>>
    /\ UNCHANGED <<cvars, ovars>>

\* the client sends the same body again
Repeat ==
    /\ pc = "done"
    /\ callNo < MaxCalls
    /\ callNo' = callNo + 1
    /\ prevOutcome' = outcome
    /\ prevResponse' = response
    /\ now' = now + 1
    /\ prevNow' = now
    /\ pc' = "request"
    /\ outcome' = "none"
    /\ response' = None
    /\ aggSteps' = 0
    /\ UNCHANGED <<payload, locals>>
    /\ UNCHANGED <<cvars, ovars>>

Next ==
    \/ ParseRequest
    \/ BuildTargets
    \/ GroupSample
    \/ StartResults
    \/ AggregateKpi
    \/ Return
    \/ Repeat

Spec == Init /\ [][Next]_vars

TypeOK ==
    /\ pc \in {"request", "targets", "group", "aggregate", "done"}
    /\ outcome \in {"none", "ok", "validation_error", "error"}
    /\ callNo \in 1..MaxCalls

-----------------------------------------------------------------------------
(* The handler run alone, as one function of the request *)

\* the first loop over the first n telemetry entries
RECURSIVE GroupAll(_, _, _)
GroupAll(tgts, telemetry, n) ==
    IF n = 0 THEN NewAggregates(tgts)
    ELSE SetDefaultAppend(GroupAll(tgts, telemetry, n - 1),
                          telemetry[n].kpiId, telemetry[n].value)

\* the second loop over the first n items of aggregates
RECURSIVE AggregateAll(_, _, _)
AggregateAll(tgts, agg, n) ==
    IF n = 0
    THEN [raised |-> FALSE, results |-> NewResults(<<>>), renewal_flag |-> FALSE]
    ELSE LET sofar == AggregateAll(tgts, agg, n - 1)
         IN  IF sofar.raised THEN sofar
             ELSE AggregateItem(tgts, agg[n], sofar.results, sofar.renewal_flag)

\* the outcome and the response of one call on request p
ProcessAlone(p) ==
    IF ~RequestValid(p)
    THEN [outcome |-> "validation_error", response |-> None]
    ELSE LET kpiTargets == KpiTargets(p.valueCommit)
         IN  IF \E n \in DOMAIN kpiTargets : "kpiId" \notin DOMAIN kpiTargets[n]
             THEN [outcome |-> "error", response |-> None]
             ELSE LET tgts == TargetsDict(kpiTargets)
                      agg == GroupAll(tgts, p.telemetryData, Len(p.telemetryData))
                      fold == AggregateAll(tgts, agg, Len(agg))
                  IN  IF fold.raised
                      THEN [outcome |-> "error", response |-> None]
                      ELSE [outcome |-> "ok",
                            response |->
                                [realizationReport |->
                                     Report(p.valueCommit, fold.results),
                                 renewalAlert |-> Alert(fold.renewal_flag)]]

-----------------------------------------------------------------------------
(* Concurrent calls of the handler.  The handler has no await, so the      *)
(* event loop runs each call to its end before the next; several workers   *)
(* run calls truly in parallel.  Both are covered by letting the calls     *)
(* interleave statement by statement.                                      *)

MaxConcSamples == 2  \* longest telemetryData list of a concurrent call

Calls == {1, 2}

ConcSamples ==
    {[kpiId |-> "time-saved", timestamp |-> "2025-11-01T00:00:00Z", value |-> Float(-1)],
     [kpiId |-> "time-saved", timestamp |-> "2025-11-01T00:00:00Z", value |-> Float(1)],
     [kpiId |-> "revenue", timestamp |-> "2025-11-01T00:00:00Z", value |-> Float(-1)]}

ConcCommits ==
    {[id |-> Str("vc-1"), kpiTargets |-> <<>>],
     [id |-> Str("vc-1"),
      kpiTargets |-> <<[kpiId |-> "time-saved", targetValue |-> Float(0),
                        unit |-> Str("percent")]>>]}

ConcPayloads ==
    {[valueCommit |-> c, telemetryData |-> t] :
        c \in ConcCommits, t \in SeqUpTo(ConcSamples, MaxConcSamples)}

\* the locals of a call that has not started
NewFrame ==
    [pc |-> "request", outcome |-> "none", response |-> None,
     targets |-> EmptyDict, aggregates |-> <<>>, i |-> 1, j |-> 1,
     results |-> <<>>, renewal_flag |-> FALSE]

ConcInit ==
    /\ NoSingleCall
    /\ NoOrchestrator
    /\ requests \in [Calls -> ConcPayloads]
    /\ frames = [c \in Calls |-> NewFrame]
    /\ overlapped = FALSE

\* aggregates is a module-level dict: every call uses the same one
AggregatesOwner_module(c) == CHOOSE x \in Calls : \A y \in Calls : x <= y

\* the frame that holds the aggregates dict of call c: aggregates is a local
AggregatesOwner(c) == c

\* another call is between its first and its last statement
OtherUnderWay(c) ==
    \E d \in Calls \ {c} : frames[d].pc \in {"targets", "group", "aggregate"}

ConcStep(c) ==
    /\ overlapped' = (overlapped \/ OtherUnderWay(c))
    /\ UNCHANGED <<requests, vars, ovars>>

ConcParseRequest(c) ==
    /\ frames[c].pc = "request"
    /\ frames' = IF RequestValid(requests[c])
                 THEN [frames EXCEPT ![c].pc = "targets"]
                 ELSE [frames EXCEPT ![c].pc = "done",
                                     ![c].outcome = "validation_error"]
    /\ ConcStep(c)

ConcBuildTargets(c) ==
    /\ frames[c].pc = "targets"
    /\ LET kpiTargets == KpiTargets(requests[c].valueCommit)
       IN  frames' =
             IF \E n \in DOMAIN kpiTargets : "kpiId" \notin DOMAIN kpiTargets[n]
             THEN [frames EXCEPT ![c].pc = "done", ![c].outcome = "error"]
             ELSE [frames EXCEPT
                     ![c].targets = TargetsDict(kpiTargets),
                     ![AggregatesOwner(c)].aggregates =
                         NewAggregates(TargetsDict(kpiTargets)),
                     ![c].i = 1,
                     ![c].pc = "group"]
    /\ ConcStep(c)

ConcGroupSample(c) ==
    /\ frames[c].pc = "group"
    /\ frames[c].i <= Len(requests[c].telemetryData)
    /\ LET t == requests[c].telemetryData[frames[c].i]
       IN  frames' = [frames EXCEPT
                        ![AggregatesOwner(c)].aggregates =
                            SetDefaultAppend(@, t.kpiId, t.value),
                        ![c].i = @ + 1]
    /\ ConcStep(c)

ConcStartResults(c) ==
    /\ frames[c].pc = "group"
    /\ frames[c].i > Len(requests[c].telemetryData)
    /\ frames' = [frames EXCEPT ![c].results = NewResults(@),
                                ![c].renewal_flag = FALSE,
                                ![c].j = 1,
                                ![c].pc = "aggregate"]
    /\ ConcStep(c)

ConcAggregateKpi(c) ==
    /\ frames[c].pc = "aggregate"
    /\ frames[c].j <= Len(frames[AggregatesOwner(c)].aggregates)
    /\ LET step == AggregateItem(frames[c].targets,
                                 frames[AggregatesOwner(c)].aggregates[frames[c].j],
                                 frames[c].results, frames[c].renewal_flag)
       IN  frames' =
             IF step.raised
             THEN [frames EXCEPT ![c].pc = "done", ![c].outcome = "error"]
             ELSE [frames EXCEPT ![c].results = step.results,
                                 ![c].renewal_flag = step.renewal_flag,
                                 ![c].j = @ + 1]
    /\ ConcStep(c)

ConcReturn(c) ==
    /\ frames[c].pc = "aggregate"
    /\ frames[c].j > Len(frames[AggregatesOwner(c)].aggregates)
    /\ frames' = [frames EXCEPT
                    ![c].response =
                        [realizationReport |->
                             Report(requests[c].valueCommit, frames[c].results),
                         renewalAlert |-> Alert(frames[c].renewal_flag)],
                    ![c].outcome = "ok",
                    ![c].pc = "done"]
    /\ ConcStep(c)

ConcNext ==
    \/ \E c \in Calls : ConcParseRequest(c)
    \/ \E c \in Calls : ConcBuildTargets(c)
    \/ \E c \in Calls : ConcGroupSample(c)
    \/ \E c \in Calls : ConcStartResults(c)
    \/ \E c \in Calls : ConcAggregateKpi(c)
    \/ \E c \in Calls : ConcReturn(c)

SpecConc == ConcInit /\ [][ConcNext]_cvars

-----------------------------------------------------------------------------
(* The task orchestrator (scripts/production-readiness-orchestrator.py).   *)
(* self.tasks is a public dict of Task objects; execute_task may be called *)
(* on any task id, and run_autonomous_mode loops over progress checks.     *)
(* One coroutine runs at a time; it is followed from await to await.       *)

MaxDirectCalls == 2       \* execute_task calls made from outside the loop
MaxChecks == 2            \* progress checks the loop is followed for
DefaultMaxRetries == 3    \* Task.max_retries

\* self.tasks in insertion order
TaskOrder == <<"sdui_engine", "agent_api_integration">>

TaskIds == {TaskOrder[n] : n \in DOMAIN TaskOrder}

\* a task id that is not a key of self.tasks
UnknownTask == "unknown_task"

NOT_STARTED == "not_started"
IN_PROGRESS == "in_progress"
BLOCKED == "blocked"
COMPLETE == "complete"
FAILED == "failed"

TaskStatus == {NOT_STARTED, IN_PROGRESS, BLOCKED, COMPLETE, FAILED}

P0_CRITICAL == 0
P3_LOW == 3

Priority == P0_CRITICAL..P3_LOW

\* the dependency lists task id may have: none, a task that is not in
\* self.tasks (for the first task), the task before it (for the others)
Dependencies(id) ==
    IF id = TaskOrder[1] THEN {<<>>, <<UnknownTask>>}
    ELSE {<<>>, <<TaskOrder[1]>>}

\* the Task objects a caller may put in self.tasks under id; retry_count
\* and max_retries keep their defaults
Tasks(id) ==
    [status : TaskStatus,
     priority : Priority,
     dependencies : Dependencies(id),
     blockers : {<<>>, <<"waiting for review">>},
     retry_count : {0},
     max_retries : {DefaultMaxRetries}]

OrchInit ==
    /\ NoSingleCall
    /\ NoConcurrentCalls
    /\ tasks \in {ts \in [TaskIds -> UNION {Tasks(id) : id \in TaskIds}] :
                    \A id \in TaskIds : ts[id] \in Tasks(id)}
    /\ daily_reports = <<>>
    /\ escalations = <<>>
    /\ opc = "idle"
    /\ etask = ""
    /\ eresult = "none"
    /\ caller = "none"
    /\ callRuns = 0
    /\ ranLogic = FALSE
    /\ directCalls = 0
    /\ execsSinceCheck = 0

\* a missing dependency counts as met
CheckDependencies_missingOk(ts, t) ==
    \A n \in DOMAIN t.dependencies :
        t.dependencies[n] \in DOMAIN ts
            => ts[t.dependencies[n]].status = COMPLETE

\* _check_dependencies
CheckDependencies(ts, t) ==
    \A n \in DOMAIN t.dependencies :
        /\ t.dependencies[n] \in DOMAIN ts
        /\ ts[t.dependencies[n]].status = COMPLETE

\* _validate_acceptance_criteria
ValidateAcceptanceCriteria(t) == t.status = COMPLETE

\* _execute_task_logic
ExecuteTaskLogic(t) ==
    IF t.status = COMPLETE THEN TRUE
    ELSE IF t.status = IN_PROGRESS THEN ValidateAcceptanceCriteria(t)
    ELSE FALSE

\* if task.retry_count <= task.max_retries
RetriesRemain_orEqual(t) == t.retry_count <= t.max_retries

\* if task.retry_count < task.max_retries
RetriesRemain(t) == t.retry_count < t.max_retries

\* if task.priority.value <= Priority.P1_HIGH.value
IsCritical_orHigh(t) == t.priority <= 1

\* if task.priority == Priority.P0_CRITICAL
IsCritical(t) == t.priority = P0_CRITICAL

\* the line _escalate_critical_failure appends to escalations.json for task
\* id; by names the method that asked for it
EscalationReport(ts, id, by) ==
    [task_id |-> id,
     priority |-> ts[id].priority,
     blockers |-> ts[id].blockers,
     retry_count |-> ts[id].retry_count,
     requires_human_intervention |-> TRUE,
     by |-> by]

\* where the coroutine is once execute_task has returned to who called it
AfterCall(who) == IF who = "direct" THEN "idle" ELSE "auto_sleep"

\* execute_task(id) from its first statement to its return or to the sleep
\* before a retry; runs is the number of runs of the task logic made so far
\* in the outermost call
ExecuteTask(id, who, runs) ==
    /\ etask' = id
    /\ caller' = who
    /\ IF id \notin DOMAIN tasks
       THEN \* Task not found
            /\ eresult' = "False"
            /\ opc' = AfterCall(who)
            /\ callRuns' = runs
            /\ ranLogic' = FALSE
            /\ UNCHANGED <<tasks, escalations>>
       ELSE IF ~CheckDependencies(tasks, tasks[id]) \/ tasks[id].blockers # <<>>
       THEN /\ tasks' = [tasks EXCEPT ![id].status = BLOCKED]
            /\ eresult' = "False"
            /\ opc' = AfterCall(who)
            /\ callRuns' = runs
            /\ ranLogic' = FALSE
            /\ UNCHANGED escalations
       ELSE /\ ranLogic' = TRUE
            /\ callRuns' = runs + 1
            /\ IF ExecuteTaskLogic(tasks[id])
               THEN /\ tasks' = [tasks EXCEPT ![id].status = COMPLETE]
                    /\ eresult' = "True"
                    /\ opc' = AfterCall(who)
                    /\ UNCHANGED escalations
               ELSE IF RetriesRemain(tasks[id])
               THEN \* await asyncio.sleep(2 ** task.retry_count)
                    /\ tasks' = [tasks EXCEPT ![id].retry_count = @ + 1]
                    /\ eresult' = "none"
                    /\ opc' = "backoff"
                    /\ UNCHANGED escalations
               ELSE /\ tasks' = [tasks EXCEPT ![id].status = FAILED]
                    /\ escalations' =
                           IF IsCritical(tasks[id])
                           THEN Append(escalations,
                                       EscalationReport(tasks', id, "execute_task"))
                           ELSE escalations
                    /\ eresult' = "False"
                    /\ opc' = AfterCall(who)

\* some caller awaits execute_task(id)
DirectCall ==
    /\ opc = "idle"
    /\ directCalls < MaxDirectCalls
    /\ directCalls' = directCalls + 1
    /\ \E id \in TaskIds \cup {UnknownTask} : ExecuteTask(id, "direct", 0)
    /\ UNCHANGED <<daily_reports, execsSinceCheck, vars, cvars>>

\* the sleep is over: return await self.execute_task(task_id)
ExecuteRetry ==
    /\ opc = "backoff"
    /\ ExecuteTask(etask, caller, callRuns)
    /\ UNCHANGED <<daily_reports, directCalls, execsSinceCheck, vars, cvars>>

\* the number of tasks of the given ids whose status is st
RECURSIVE CountStatus(_, _, _)
CountStatus(ts, ids, st) ==
    IF ids = {} THEN 0
    ELSE LET id == CHOOSE x \in ids : TRUE
         IN  (IF ts[id].status = st THEN 1 ELSE 0)
                 + CountStatus(ts, ids \ {id}, st)

\* failed tasks count as completed
CompletedTasks_orFailed(ts) ==
    CountStatus(ts, DOMAIN ts, COMPLETE) + CountStatus(ts, DOMAIN ts, FAILED)

\* completed_tasks
CompletedTasks(ts) == CountStatus(ts, DOMAIN ts, COMPLETE)

\* (completed_tasks / total_tasks) * 100
CompletionPercentage(ts) == Num(CompletedTasks(ts) * 100, Cardinality(DOMAIN ts))

\* the blocked P0 tasks among the first n of self.tasks, in order
RECURSIVE CriticalBlockers(_, _)
CriticalBlockers(ts, n) ==
    IF n = 0 THEN <<>>
    ELSE LET id == TaskOrder[n]
         IN  IF ts[id].status = BLOCKED /\ ts[id].priority = P0_CRITICAL
             THEN Append(CriticalBlockers(ts, n - 1), id)
             ELSE CriticalBlockers(ts, n - 1)

\* the report of daily_progress_check, without its clock readings
ProgressReport(ts) ==
    [completion_percentage |-> CompletionPercentage(ts),
     total_tasks |-> Cardinality(DOMAIN ts),
     completed_tasks |-> CompletedTasks(ts),
     in_progress_tasks |-> CountStatus(ts, DOMAIN ts, IN_PROGRESS),
     blocked_tasks |-> CountStatus(ts, DOMAIN ts, BLOCKED),
     failed_tasks |-> CountStatus(ts, DOMAIN ts, FAILED),
     critical_blockers |-> CriticalBlockers(ts, Len(TaskOrder))]

\* report["completion_percentage"] >= 100
ProductionReady(report) ==
    report.completion_percentage.num >= 100 * report.completion_percentage.den

\* the tasks _get_next_task may return, in the order of self.tasks
RECURSIVE AvailableTasks(_, _)
AvailableTasks(ts, n) ==
    IF n = 0 THEN <<>>
    ELSE LET id == TaskOrder[n]
         IN  IF /\ ts[id].status \in {NOT_STARTED, IN_PROGRESS}
                /\ CheckDependencies(ts, ts[id])
                /\ ts[id].blockers = <<>>
             THEN Append(AvailableTasks(ts, n - 1), id)
             ELSE AvailableTasks(ts, n - 1)

NoTask == ""

\* the last task of the sorted list is returned
GetNextTask_last(ts) ==
    LET available == AvailableTasks(ts, Len(TaskOrder))
    IN  IF available = <<>> THEN NoTask
        ELSE available[CHOOSE n \in DOMAIN available :
                 \A m \in DOMAIN available :
                     \/ ts[available[n]].priority > ts[available[m]].priority
                     \/ /\ ts[available[n]].priority = ts[available[m]].priority
                        /\ n >= m]

\* _get_next_task: the first task of the stable sort by priority value
GetNextTask(ts) ==
    LET available == AvailableTasks(ts, Len(TaskOrder))
    IN  IF available = <<>> THEN NoTask
        ELSE available[CHOOSE n \in DOMAIN available :
                 \A m \in DOMAIN available :
                     \/ ts[available[n]].priority < ts[available[m]].priority
                     \/ /\ ts[available[n]].priority = ts[available[m]].priority
                        /\ n <= m]

\* run_autonomous_mode is started
StartAutonomous ==
    /\ opc = "idle"
    /\ opc' = "auto_check"
    /\ execsSinceCheck' = 0
    /\ UNCHANGED <<tasks, daily_reports, escalations, etask, eresult, caller,
                   callRuns, ranLogic, directCalls, vars, cvars>>

\* the head of the loop: report = await self.daily_progress_check() and the
\* test that ends the loop
DailyProgressCheck ==
    /\ opc = "auto_check"
    /\ Len(daily_reports) < MaxChecks
    /\ LET report == ProgressReport(tasks)
           escalate(n) == EscalationReport(tasks, report.critical_blockers[n],
                                           "daily_progress_check")
       IN  /\ daily_reports' = Append(daily_reports, report)
           /\ escalations' = escalations \o
                  [n \in DOMAIN report.critical_blockers |-> escalate(n)]
           /\ opc' = IF ProductionReady(report) THEN "auto_done" ELSE "auto_next"
    /\ execsSinceCheck' = 0
    /\ UNCHANGED <<tasks, etask, eresult, caller, callRuns, ranLogic,
                   directCalls, vars, cvars>>

\* next_task = self._get_next_task(); if next_task: await self.execute_task(...)
ExecuteNextTask ==
    /\ opc = "auto_next"
    /\ LET next_task == GetNextTask(tasks)
       IN  IF next_task = NoTask
           THEN /\ opc' = "auto_sleep"
                /\ UNCHANGED <<tasks, escalations, etask, eresult, caller,
                               callRuns, ranLogic, execsSinceCheck>>
           ELSE /\ ExecuteTask(next_task, "autonomous", 0)
                /\ execsSinceCheck' = execsSinceCheck + 1
    /\ UNCHANGED <<daily_reports, directCalls, vars, cvars>>

\* await asyncio.sleep(6 * 60 * 60)
SleepUntilNextCheck ==
    /\ opc = "auto_sleep"
    /\ opc' = "auto_check"
    /\ UNCHANGED <<tasks, daily_reports, escalations, etask, eresult, caller,
                   callRuns, ranLogic, directCalls, execsSinceCheck,
                   vars, cvars>>

OrchNext ==
    \/ DirectCall
    \/ ExecuteRetry
    \/ StartAutonomous
    \/ DailyProgressCheck
    \/ ExecuteNextTask
    \/ SleepUntilNextCheck

SpecOrch == OrchInit /\ [][OrchNext]_ovars

\* a coroutine that sleeps before a retry is resumed by the event loop
SpecOrchFair == SpecOrch /\ WF_ovars(ExecuteRetry)

-----------------------------------------------------------------------------
(* Vocabulary of the properties *)

\* the call has returned a RealizationReport
Returned == pc = "done" /\ outcome = "ok"

ReportResults == response.realizationReport.results

RenewalAlert == response.renewalAlert

\* x < y on numbers, by cross multiplication
Less(x, y) == x.num * y.den < y.num * x.den

\* an entry of kpiTargets that carries kpiId, targetValue and unit
WellTypedTarget(t) ==
    /\ {"kpiId", "targetValue", "unit"} \subseteq DOMAIN t
    /\ IsNumber(t.targetValue)
    /\ t.unit.type = "str"

WellTypedCommit(c) ==
    \A n \in DOMAIN KpiTargets(c) : WellTypedTarget(KpiTargets(c)[n])

WellTypedPayload(p) == RequestValid(p) /\ WellTypedCommit(p.valueCommit)

\* positions of the telemetry entries of KPI k
SamplesOf(k) ==
    {n \in DOMAIN payload.telemetryData : payload.telemetryData[n].kpiId = k}

\* positions of the kpiTargets entries of KPI k
TargetsOf(k) ==
    LET ts == KpiTargets(payload.valueCommit)
    IN  {n \in DOMAIN ts : "kpiId" \in DOMAIN ts[n] /\ ts[n].kpiId = k}

\* a result is under target: it has a numeric targetValue above its actualValue
UnderTarget(r) ==
    /\ r.targetValue # None
    /\ IsNumber(r.targetValue)
    /\ Less(r.actualValue, r.targetValue)

-----------------------------------------------------------------------------
(* C1: the alert status is "risk" exactly when some emitted result has a   *)
(* variance that is present and strictly negative, and "ok" otherwise; a   *)
(* variance of exactly 0 does not make it "risk".                          *)
RiskIffNegativeVariance ==
    Returned =>
        /\ RenewalAlert.status \in {"ok", "risk"}
        /\ RenewalAlert.status = "risk" <=>
               \E n \in DOMAIN ReportResults :
                   /\ ReportResults[n].variance # None
                   /\ IsNegative(ReportResults[n].variance)

\* two samples whose mean equals the target: variance 0, status ok
ZeroVarianceIsOk ==
    /\ Returned
    /\ Len(payload.telemetryData) >= 2
    /\ \E n \in DOMAIN ReportResults :
           /\ ReportResults[n].variance = Float(0)
           /\ Cardinality(SamplesOf(ReportResults[n].kpiId)) = 2
           /\ \E m \in SamplesOf(ReportResults[n].kpiId) :
                  payload.telemetryData[m].value # ReportResults[n].actualValue
    /\ RenewalAlert.status = "ok"

-----------------------------------------------------------------------------
(* C2: the alert carries a message exactly when its status is "risk"; any  *)
(* result under its target makes the status "risk" with the one fixed      *)
(* advisory message, and an "ok" alert has no message field at all.        *)
MessageIffRisk ==
    Returned =>
        /\ "message" \in DOMAIN RenewalAlert <=> RenewalAlert.status = "risk"
        /\ (\E n \in DOMAIN ReportResults : UnderTarget(ReportResults[n]))
               => /\ RenewalAlert.status = "risk"
                  /\ "message" \in DOMAIN RenewalAlert
                  /\ RenewalAlert.message = RiskMessage
        /\ RenewalAlert.status = "ok" => DOMAIN RenewalAlert = {"status"}

\* a returned call in which both KPIs are under target
TwoKpisUnderTarget ==
    /\ Returned
    /\ Len(ReportResults) = 2
    /\ \A n \in DOMAIN ReportResults : UnderTarget(ReportResults[n])
    /\ RenewalAlert.status = "risk"

-----------------------------------------------------------------------------
(* C3: with an empty telemetry list the call returns a report with an      *)
(* empty results sequence and an alert with status "ok", for every value   *)
(* commit whose targets are well typed, with or without kpiTargets.        *)
EmptySamplesEmptyReport ==
    (pc = "done" /\ payload.telemetryData = <<>>
                 /\ WellTypedCommit(payload.valueCommit))
        => /\ outcome = "ok"
           /\ ReportResults = <<>>
           /\ RenewalAlert.status = "ok"

\* no telemetry, two targets, the call has returned
EmptySamplesWithTargets ==
    /\ Returned
    /\ payload.telemetryData = <<>>
    /\ Len(KpiTargets(payload.valueCommit)) = 2
    /\ ReportResults = <<>>

-----------------------------------------------------------------------------
-----------------------------------------------------------------------------
(* C5: a result whose kpiId has no target has targetValue, unit and        *)
(* variance absent (None), and results without a target never make the     *)
(* status "risk", whatever their actualValue.                              *)
UnmatchedIsAbsentAndUnflagged ==
    Returned =>
        /\ \A n \in DOMAIN ReportResults :
               TargetsOf(ReportResults[n].kpiId) = {} =>
                   /\ ReportResults[n].targetValue = None
                   /\ ReportResults[n].unit = None
                   /\ ReportResults[n].variance = None
        /\ RenewalAlert.status = "risk" =>
               \E n \in DOMAIN ReportResults :
                   /\ TargetsOf(ReportResults[n].kpiId) # {}
                   /\ UnderTarget(ReportResults[n])

\* an unmatched KPI with a negative mean next to a matched KPI on target
UnmatchedNegativeIsOk ==
    /\ Returned
    /\ \E n \in DOMAIN ReportResults :
           /\ TargetsOf(ReportResults[n].kpiId) = {}
           /\ IsNegative(ReportResults[n].actualValue)
    /\ \E n \in DOMAIN ReportResults : TargetsOf(ReportResults[n].kpiId) # {}
    /\ RenewalAlert.status = "ok"

-----------------------------------------------------------------------------
(* C6: the results hold exactly one result per distinct kpiId of the       *)
(* samples, in the order of each kpiId's first occurrence among the        *)
(* samples; a kpiId that occurs only in the targets has no result.         *)

\* the kpiIds of the first n samples, each once, in first-occurrence order
RECURSIVE FirstObserved(_)
FirstObserved(n) ==
    IF n = 0 THEN <<>>
    ELSE LET before == FirstObserved(n - 1)
             k == payload.telemetryData[n].kpiId
         IN  IF \E m \in DOMAIN before : before[m] = k
             THEN before ELSE Append(before, k)

OneResultPerObservedKpi ==
    Returned =>
        /\ [n \in DOMAIN ReportResults |-> ReportResults[n].kpiId]
               = FirstObserved(Len(payload.telemetryData))
        /\ \A n \in DOMAIN ReportResults : SamplesOf(ReportResults[n].kpiId) # {}

\* samples revenue, time-saved, revenue against a target list that starts
\* with time-saved: the results are ordered revenue, time-saved
ResultsInFirstObservedOrder ==
    /\ Returned
    /\ Len(payload.telemetryData) = 3
    /\ payload.telemetryData[1].kpiId = "revenue"
    /\ payload.telemetryData[2].kpiId = "time-saved"
    /\ payload.telemetryData[3].kpiId = "revenue"
    /\ Len(KpiTargets(payload.valueCommit)) = 2
    /\ KpiTargets(payload.valueCommit)[1].kpiId = "time-saved"
    /\ Len(ReportResults) = 2
    /\ ReportResults[1].kpiId = "revenue"

-----------------------------------------------------------------------------
(* C7: a result's actualValue is the arithmetic mean of all samples of its *)
(* kpiId: actualValue times their number equals their sum, every sample    *)
(* counting once; a single sample yields its own value and a negative mean *)
(* is reported as it is.                                                   *)

\* the sum of the values of the samples at the given positions
RECURSIVE TotalAt(_)
TotalAt(positions) ==
    IF positions = {} THEN 0
    ELSE LET n == CHOOSE x \in positions : TRUE
         IN  payload.telemetryData[n].value.num + TotalAt(positions \ {n})

ActualIsMean ==
    Returned =>
        \A n \in DOMAIN ReportResults :
            LET r == ReportResults[n]
                at == SamplesOf(r.kpiId)
            IN  /\ IsNumber(r.actualValue)
                /\ r.actualValue.den > 0
                /\ r.actualValue.num * Cardinality(at)
                       = TotalAt(at) * r.actualValue.den
                /\ Cardinality(at) = 1 =>
                       \A m \in at : r.actualValue = payload.telemetryData[m].value

\* three samples of one KPI, two of them equal in value and timestamp,
\* with the negative mean -2/3
NegativeMeanOfDuplicates ==
    /\ Returned
    /\ \E n \in DOMAIN ReportResults :
           /\ Cardinality(SamplesOf(ReportResults[n].kpiId)) = 3
           /\ ReportResults[n].actualValue = Num(-2, 3)

-----------------------------------------------------------------------------
(* C8: a second call with the identical valueCommit and samples returns    *)
(* the identical results (kpiIds, order, actualValue, targetValue, unit,   *)
(* variance) and the identical alert.                                      *)
SecondCallSameOutput ==
    (pc = "done" /\ callNo > 1) =>
        /\ outcome = prevOutcome
        /\ response = prevResponse

\* the second call has returned a report with two results and a risk alert
SecondCallReturned ==
    /\ Returned
    /\ callNo = 2
    /\ prevOutcome = "ok"
    /\ Len(ReportResults) = 2
    /\ RenewalAlert.status = "risk"

-----------------------------------------------------------------------------
(* C9: on a well-typed request the handler never ends in the 500 outcome:  *)
(* every group holds at least one sample, so the mean never divides by     *)
(* zero, the number of steps is bounded by the input, and the call ends    *)
(* with a report and an alert.                                             *)
TotalOnWellTyped ==
    WellTypedPayload(payload) =>
        /\ outcome \in {"none", "ok"}
        /\ pc \in {"group", "aggregate"} =>
               \A n \in DOMAIN aggregates : Len(aggregates[n].values) >= 1
        /\ aggSteps <= 2 * Len(payload.telemetryData) + 3
        /\ pc = "done" =>
               /\ outcome = "ok"
               /\ DOMAIN response = {"realizationReport", "renewalAlert"}

\* a well-typed request with the longest lists, and a target whose KPI has
\* no telemetry, has been answered
WellTypedAnswered ==
    /\ Returned
    /\ WellTypedPayload(payload)
    /\ Len(payload.telemetryData) = MaxSamples
    /\ Len(KpiTargets(payload.valueCommit)) = MaxTargets
    /\ \E m \in DOMAIN KpiTargets(payload.valueCommit) :
           SamplesOf(KpiTargets(payload.valueCommit)[m].kpiId) = {}

-----------------------------------------------------------------------------
(* C10: a request with a malformed or missing field, in the samples or in  *)
(* the kpiTargets entries, ends as a validation error before any statement *)
(* of the aggregation has run, and no report or alert is emitted for it.   *)
MalformedIsRejected ==
    (pc = "done" /\ ~WellTypedPayload(payload)) =>
        /\ outcome = "validation_error"
        /\ aggSteps = 0
        /\ response = None

-----------------------------------------------------------------------------
(* C12: two calls made at different times on the identical request return  *)
(* reports that differ in generatedAt and in nothing else.                 *)
GeneratedAtFollowsCallTime ==
    (Returned /\ callNo > 1 /\ prevOutcome = "ok" /\ now # prevNow) =>
        /\ response.realizationReport.generatedAt
               # prevResponse.realizationReport.generatedAt
        /\ [response.realizationReport EXCEPT !.generatedAt = ""]
               = [prevResponse.realizationReport EXCEPT !.generatedAt = ""]
        /\ response.renewalAlert = prevResponse.renewalAlert

-----------------------------------------------------------------------------
(* C13: a target whose targetValue is 0 is a present target: the result of *)
(* its kpiId has targetValue 0 and a variance equal to actualValue, and a  *)
(* negative actualValue for it makes the status "risk".                    *)
ZeroTargetIsPresent ==
    Returned =>
        \A n \in DOMAIN ReportResults :
            LET r == ReportResults[n]
                at == TargetsOf(r.kpiId)
            IN  (at # {} /\ \A m \in at :
                     DictGet(KpiTargets(payload.valueCommit)[m], "targetValue")
                         = Float(0))
                => /\ r.targetValue = Float(0)
                   /\ r.variance = r.actualValue
                   /\ IsNegative(r.actualValue) => RenewalAlert.status = "risk"

\* a KPI with target 0 and a negative mean has been reported as a risk
ZeroTargetUnderDelivered ==
    /\ Returned
    /\ \E n \in DOMAIN ReportResults :
           /\ ReportResults[n].targetValue = Float(0)
           /\ ReportResults[n].variance = ReportResults[n].actualValue
           /\ IsNegative(ReportResults[n].actualValue)
    /\ Len(ReportResults) = 1
    /\ RenewalAlert.status = "risk"

-----------------------------------------------------------------------------
(* The statement-by-statement handler ends as the handler run alone does.  *)
StepsAgreeWithProcessAlone ==
    pc = "done" =>
        [outcome |-> outcome, response |-> response] = ProcessAlone(payload)

-----------------------------------------------------------------------------
(* C11: when calls run concurrently, in any interleaving of their          *)
(* statements, each call ends with the outcome, report and alert that the  *)
(* same call returns when run alone on its own request.                    *)
ConcurrentCallsIsolated ==
    \A c \in Calls :
        frames[c].pc = "done" =>
            [outcome |-> frames[c].outcome, response |-> frames[c].response]
                = ProcessAlone(requests[c])

\* two calls on different requests have both returned after their
\* statements were interleaved, one with a risk alert and one without
InterleavedCallsReturned ==
    /\ overlapped
    /\ \A c \in Calls : frames[c].pc = "done" /\ frames[c].outcome = "ok"
    /\ requests[1] # requests[2]
    /\ \A c \in Calls : Len(requests[c].telemetryData) = MaxConcSamples
    /\ \E c, d \in Calls :
           /\ frames[c].response.renewalAlert.status = "risk"
           /\ frames[d].response.renewalAlert.status = "ok"

-----------------------------------------------------------------------------
(* Vocabulary of the orchestrator's properties *)

\* every dependency of task id is a task of self.tasks that is COMPLETE
DepsComplete(id) ==
    \A n \in DOMAIN tasks[id].dependencies :
        LET dep == tasks[id].dependencies[n]
        IN  dep \in TaskIds /\ tasks[dep].status = "complete"

\* this step enters execute_task (on etask'): a call from outside, a retry
\* after the sleep, or the call of the autonomous loop
EntersExecuteTask ==
    \/ opc = "idle" /\ directCalls' = directCalls + 1
    \/ opc = "backoff"
    \/ opc = "auto_next" /\ execsSinceCheck' = execsSinceCheck + 1

AllComplete == \A id \in TaskIds : tasks[id].status = "complete"

-----------------------------------------------------------------------------
(* C14: every call of execute_task ends, after at most max_retries + 1     *)
(* runs of the task logic, and no task's retry_count ever exceeds its      *)
(* max_retries, also over repeated calls on the same task.                 *)
RetriesBounded ==
    /\ [](/\ \A id \in TaskIds : tasks[id].retry_count <= tasks[id].max_retries
          /\ etask \in TaskIds => callRuns <= tasks[etask].max_retries + 1)
    /\ (opc = "backoff") ~> (opc # "backoff" /\ eresult # "none")

\* a call has run the task logic max_retries + 1 times and has returned
\* False with the task FAILED
RetriesUsedUp ==
    /\ etask \in TaskIds
    /\ opc = "idle"
    /\ eresult = "False"
    /\ callRuns = tasks[etask].max_retries + 1
    /\ tasks[etask].retry_count = tasks[etask].max_retries
    /\ tasks[etask].status = "failed"

-----------------------------------------------------------------------------
(* C15: execute_task never runs the task logic for a task with a missing   *)
(* or not COMPLETE dependency or with blockers: it sets the task BLOCKED,  *)
(* returns False and leaves retry_count and every other task as they were. *)
BlockedTaskNotRun ==
    [][\A id \in TaskIds :
          (/\ EntersExecuteTask
           /\ etask' = id
           /\ ~DepsComplete(id) \/ tasks[id].blockers # <<>>)
          => /\ ~ranLogic'
             /\ callRuns' = (IF opc = "backoff" THEN callRuns ELSE 0)
             /\ eresult' = "False"
             /\ opc' # "backoff"
             /\ tasks'[id].status = "blocked"
             /\ tasks'[id].retry_count = tasks[id].retry_count
             /\ \A other \in TaskIds \ {id} : tasks'[other] = tasks[other]
             /\ escalations' = escalations]_ovars

\* the second call was made on a task without blockers whose dependency
\* had FAILED in the first call: it is BLOCKED and its logic was not run
BlockedByFailedDependency ==
    /\ directCalls = 2
    /\ opc = "idle"
    /\ etask = TaskOrder[2]
    /\ tasks[TaskOrder[1]].status = "failed"
    /\ tasks[etask].dependencies = <<TaskOrder[1]>>
    /\ tasks[etask].blockers = <<>>
    /\ tasks[etask].status = "blocked"
    /\ tasks[etask].retry_count = 0
    /\ ~ranLogic
    /\ eresult = "False"

-----------------------------------------------------------------------------
(* C16: when the task logic fails with retry_count equal to max_retries    *)
(* the task becomes FAILED and the call returns False; execute_task writes *)
(* an escalation then if and only if the task is P0_CRITICAL, and writes   *)
(* none while retries remain, when the task succeeds or is blocked.        *)

\* entering execute_task on id now ends in the last failure: the logic is
\* run, fails, and no retry is left
LastFailure(id) ==
    /\ DepsComplete(id)
    /\ tasks[id].blockers = <<>>
    /\ tasks[id].status # "complete"
    /\ tasks[id].retry_count = tasks[id].max_retries

EscalatesOnlyCriticalFailure ==
    [][EntersExecuteTask =>
          IF etask' \in TaskIds /\ LastFailure(etask')
          THEN /\ ranLogic'
               /\ tasks'[etask'].status = "failed"
               /\ eresult' = "False"
               /\ opc' # "backoff"
               /\ IF tasks[etask'].priority = 0
                  THEN /\ Len(escalations') = Len(escalations) + 1
                       /\ SubSeq(escalations', 1, Len(escalations)) = escalations
                       /\ escalations'[Len(escalations')].task_id = etask'
                       /\ escalations'[Len(escalations')].by = "execute_task"
                       /\ escalations'[Len(escalations')].retry_count
                              = tasks[etask'].max_retries
                  ELSE escalations' = escalations
          ELSE escalations' = escalations]_ovars

\* a P0 task has FAILED in a call and execute_task has written the one
\* escalation there is
CriticalFailureEscalated ==
    /\ etask \in TaskIds
    /\ eresult = "False"
    /\ tasks[etask].status = "failed"
    /\ tasks[etask].priority = 0
    /\ Len(escalations) = 1
    /\ escalations[1].task_id = etask
    /\ escalations[1].by = "execute_task"

-----------------------------------------------------------------------------
(* C17: _get_next_task returns None when no task is available; otherwise   *)
(* the task it returns is NOT_STARTED or IN_PROGRESS, has every dependency *)
(* COMPLETE, has no blockers and has the smallest priority value of all    *)
(* such tasks; the autonomous loop never enters execute_task on a BLOCKED, *)
(* FAILED or COMPLETE task.                                                *)

Available(id) ==
    /\ tasks[id].status \in {"not_started", "in_progress"}
    /\ DepsComplete(id)
    /\ tasks[id].blockers = <<>>

NextTaskIsBestAvailable ==
    /\ [][opc = "auto_next" =>
             IF \A id \in TaskIds : ~Available(id)
             THEN /\ execsSinceCheck' = execsSinceCheck
                  /\ tasks' = tasks
                  /\ etask' = etask
                  /\ opc' = "auto_sleep"
             ELSE /\ execsSinceCheck' = execsSinceCheck + 1
                  /\ etask' \in TaskIds
                  /\ Available(etask')
                  /\ \A id \in TaskIds :
                         Available(id) =>
                             tasks[etask'].priority <= tasks[id].priority]_ovars
    /\ [][(EntersExecuteTask /\ caller' = "autonomous") =>
             /\ etask' \in TaskIds
             /\ tasks[etask'].status \in {"not_started", "in_progress"}]_ovars

\* both tasks were available with different priorities; the loop has
\* executed the one with the smaller value, which is the second of
\* self.tasks, and it has FAILED
SmallerPriorityExecuted ==
    /\ caller = "autonomous"
    /\ opc = "auto_sleep"
    /\ etask = TaskOrder[2]
    /\ tasks[etask].status = "failed"
    /\ Available(TaskOrder[1])
    /\ tasks[etask].priority < tasks[TaskOrder[1]].priority

-----------------------------------------------------------------------------
(* C18: run_autonomous_mode leaves its loop only at a progress check at    *)
(* which every task is COMPLETE, leaves it at the first such check, and    *)
(* enters execute_task for at most one task between two progress checks.   *)

InLoop ==
    \/ opc \in {"auto_check", "auto_next", "auto_sleep"}
    \/ opc = "backoff" /\ caller = "autonomous"

LoopEndsOnlyWhenAllComplete ==
    /\ [](execsSinceCheck <= 1)
    /\ [](opc = "auto_done" =>
              /\ AllComplete
              /\ daily_reports # <<>>
              /\ daily_reports[Len(daily_reports)].completion_percentage
                     = Float(100))
    /\ [][InLoop => (InLoop' \/ (opc = "auto_check" /\ opc' = "auto_done"))]_ovars
    /\ [][opc' = "auto_done" => (opc = "auto_check" /\ AllComplete)]_ovars
    /\ [][(opc = "auto_check" /\ AllComplete) => opc' = "auto_done"]_ovars
    /\ [][(InLoop /\ EntersExecuteTask /\ execsSinceCheck' = 1 /\ execsSinceCheck = 1)
              => etask' = etask]_ovars

\* the loop has ended at its first progress check, with every task COMPLETE
LoopEnded ==
    /\ opc = "auto_done"
    /\ AllComplete
    /\ Len(daily_reports) = 1
    /\ daily_reports[1].completed_tasks = daily_reports[1].total_tasks

=============================================================================
